---- MODULE Spec2Model ----
(***************************************************************************)
(* State machine of the TicTacToe session of src/firstapp.py: the board,   *)
(* the win/draw evaluation, the opponent heuristic, the click/key          *)
(* dispatch of the game loop, undo, score keeping and reset.               *)
(*                                                                         *)
(* Units.  Pointer coordinates are the normalised coordinates of the game  *)
(* loop multiplied by 100 (x = 25 stands for x_pos = 0.25).  Time is in    *)
(* tenths of a second.  fade_alpha is in tenths.                           *)
(*                                                                         *)
(* Time.  The handlers read the clock only in the difference               *)
(* current_time - self.last_move_time (line 801), so the model keeps that  *)
(* difference, elapsed, in place of the two absolute values; a handler     *)
(* leaves last_move_time alone exactly when it leaves elapsed alone, and   *)
(* last_move_time = current_time is elapsed = 0.  elapsed saturates at     *)
(* MaxIdle, which is at least move_delay, the one value it is compared to. *)
(* Between events time passes in steps, Tick, of a tenth of a second or of  *)
(* move_delay.                                                             *)
(* Python's None is the string "None"; a tuple is a sequence, and the      *)
(* None returned by find_winning_move is the empty sequence (both are      *)
(* falsy in `if move:`).                                                   *)
(***************************************************************************)
EXTENDS Integers, Sequences, FiniteSets, TLC

VARIABLES board, current_player, game_over, winner, in_menu,
          show_winner_screen, fade_alpha, player_symbol, computer_symbol,
          elapsed,          \* time.time() - last_move_time, saturating
          score, move_history,
          last_click,       \* history: the last board click, while recent
          rounds,           \* history: rounds concluded since the score reset
          round_done,       \* history: the round in play has concluded
          score_cap,        \* exploration: placements stop at this score sum
          menu_at,          \* exploration: history lengths left for the menu
          undo_at,          \* exploration: history lengths undone from
          logging,          \* exploration: whether last_click is kept
          recovery_attempts,
          running,          \* the local of run that keeps the loop going
          errors_handled    \* history: calls of handle_error so far

vars == <<board, current_player, game_over, winner, in_menu,
          show_winner_screen, fade_alpha, player_symbol, computer_symbol,
          elapsed, score, move_history,
          last_click, rounds, round_done, score_cap, menu_at, undo_at, logging,
          recovery_attempts, running, errors_handled>>

(* ---------------------------------------------------------------- bounds *)
\* elapsed saturates at MaxIdle
MaxIdle == 3
\* board clicks are accepted while the score counters sum to less than this
MaxScore == 1
\* ESC and the in-game MENU button are handled while the move history is
\* at most this long
MaxMenuDepth == 0
\* the same two, for the specifications that follow a round past its end
\* and a return to the menu later in a round
ReplayScore == 2
LateMenuDepth == 2
\* the history length at which the menu is returned to in the specification
\* that changes the symbols late in a round
SwapAt == 6
\* exceptions are raised in the loop until this many have been handled
MaxErrors == 4

(* ------------------------------------------------------------- constants *)
move_delay == 3
ComputerWait == 2
FadeThreshold == 7
FadeMax == 10
FadeRate == 6
max_recovery_attempts == 3
NoClick == <<>>
\* the steps of time followed: a tenth of a second, and move_delay at once
TickSteps == {1, move_delay}

None == "None"
Marks == {"X", "O"}
Idx == 0..2
Cells == Idx \X Idx

Min(a, b) == IF a < b THEN a ELSE b

\* move_history holds at most one entry for a mark on the board
MaxHistory == Cardinality(Cells)
EmptyBoard == [cell \in Cells |-> None]
ZeroScore == [player |-> 0, computer |-> 0, draws |-> 0]

(* ------------------------------------------------------------ evaluation *)
Line3(b, c1, c2, c3) == b[c1] = b[c2] /\ b[c2] = b[c3] /\ b[c3] /= None

RECURSIVE ScanRows(_, _)
ScanRows(b, i) ==
    IF i > 2 THEN None
    ELSE IF Line3(b, <<i, 0>>, <<i, 1>>, <<i, 2>>) THEN b[<<i, 0>>]
    ELSE ScanRows(b, i + 1)

RECURSIVE ScanCols(_, _)
ScanCols(b, i) ==
    IF i > 2 THEN None
    ELSE IF Line3(b, <<0, i>>, <<1, i>>, <<2, i>>) THEN b[<<0, i>>]
    ELSE ScanCols(b, i + 1)

\* an evaluation that looks at the rows and the columns only
check_winner_without_diagonals(b) ==
    IF ScanRows(b, 0) /= None THEN ScanRows(b, 0)
    ELSE ScanCols(b, 0)

check_winner(b) ==
    IF ScanRows(b, 0) /= None THEN ScanRows(b, 0)
    ELSE IF ScanCols(b, 0) /= None THEN ScanCols(b, 0)
    ELSE IF Line3(b, <<0, 0>>, <<1, 1>>, <<2, 2>>) THEN b[<<0, 0>>]
    ELSE IF Line3(b, <<0, 2>>, <<1, 1>>, <<2, 0>>) THEN b[<<0, 2>>]
    ELSE None

is_board_full(b) == \A cell \in Cells : b[cell] /= None

(* ------------------------------------------------------------- heuristic *)
\* row-major scan; k = 3*i + j
RECURSIVE ScanWinning(_, _, _)
ScanWinning(b, player, k) ==
    IF k > 8 THEN <<>>
    ELSE LET cell == <<k \div 3, k % 3>> IN
         IF b[cell] = None
            /\ check_winner([b EXCEPT ![cell] = player]) = player
         THEN cell
         ELSE ScanWinning(b, player, k + 1)

find_winning_move(b, player) == ScanWinning(b, player, 0)

\* a search that returns from a winning cell without emptying it again
RECURSIVE TryWinningKeeping(_, _, _)
TryWinningKeeping(b, player, k) ==
    IF k > 8 THEN [board |-> b, move |-> <<>>]
    ELSE LET cell == <<k \div 3, k % 3>>
             tried == [b EXCEPT ![cell] = player]
         IN IF b[cell] /= None THEN TryWinningKeeping(b, player, k + 1)
            ELSE IF check_winner(tried) = player
            THEN [board |-> tried, move |-> cell]
            ELSE TryWinningKeeping([tried EXCEPT ![cell] = None], player, k + 1)

\* find_winning_move with its writes to self.board: from cell k on, each
\* empty cell is set to player, evaluated and set to None again; the board
\* it leaves and the cell it returns
RECURSIVE TryWinning(_, _, _)
TryWinning(b, player, k) ==
    IF k > 8 THEN [board |-> b, move |-> <<>>]
    ELSE LET cell == <<k \div 3, k % 3>>
             tried == [b EXCEPT ![cell] = player]
         IN IF b[cell] /= None THEN TryWinning(b, player, k + 1)
            ELSE IF check_winner(tried) = player
            THEN [board |-> [tried EXCEPT ![cell] = None], move |-> cell]
            ELSE TryWinning([tried EXCEPT ![cell] = None], player, k + 1)

Corners == {<<0, 0>>, <<0, 2>>, <<2, 0>>, <<2, 2>>}
Edges == {<<0, 1>>, <<1, 0>>, <<1, 2>>, <<2, 1>>}

\* a heuristic without the last step: it gives up when the centre and the
\* corners are taken
WithoutEdges(b, cs, ps) ==
    IF find_winning_move(b, cs) /= <<>> THEN {find_winning_move(b, cs)}
    ELSE IF find_winning_move(b, ps) /= <<>> THEN {find_winning_move(b, ps)}
    ELSE IF b[<<1, 1>>] = None THEN {<<1, 1>>}
    ELSE {c \in Corners : b[c] = None}

\* a heuristic that takes a corner without looking whether it is empty
AnyCorner(b, cs, ps) ==
    IF b[<<1, 1>>] = None THEN {<<1, 1>>} ELSE Corners

\* the cells computer_move may take on board b; empty when it returns False
ComputerChoices(b, cs, ps) ==
    IF find_winning_move(b, cs) /= <<>> THEN {find_winning_move(b, cs)}
    ELSE IF find_winning_move(b, ps) /= <<>> THEN {find_winning_move(b, ps)}
    ELSE IF b[<<1, 1>>] = None THEN {<<1, 1>>}
    ELSE IF {c \in Corners : b[c] = None} /= {}
         THEN {c \in Corners : b[c] = None}
    ELSE {c \in Edges : b[c] = None}

(* -------------------------------------------------------------- geometry *)
is_point_in_rect(px, py, x, y, w, h) ==
    x <= px /\ px <= x + w /\ y <= py /\ py <= y + h

\* a get_cell that takes the far edge of the board for the last cell
get_cell_clamped(x, y) ==
    LET bx == (x + 100) * 3
        by == (y + 100) * 3
    IN IF bx < 0 \/ bx > 600 \/ by < 0 \/ by > 600 THEN <<-1, -1>>
       ELSE <<Min(2, by \div 200), Min(2, bx \div 200)>>

\* board_x = (x_pos + 1) * 1.5, kept as 200 * board_x
get_cell(x, y) ==
    LET bx == (x + 100) * 3
        by == (y + 100) * 3
        col == bx \div 200
        row == by \div 200
    IN IF bx < 0 \/ bx > 600 \/ by < 0 \/ by > 600 THEN <<-1, -1>>
       ELSE IF row < 0 \/ row > 2 \/ col < 0 \/ col > 2 THEN <<-1, -1>>
       ELSE <<row, col>>

button_width == 40
button_height == 18
button_spacing == 6
menu_y == 60

\* the first button of self.buttons (restart, menu, undo) holding the point
GameButton(x, y) ==
    IF is_point_in_rect(x, y, 5, 5, button_width, button_height)
    THEN "restart"
    ELSE IF is_point_in_rect(x, y, 30 + button_spacing, 5,
                             button_width, button_height)
    THEN "menu"
    ELSE IF is_point_in_rect(x, y, 55 + 2 * button_spacing, 5,
                             button_width, button_height)
    THEN "undo"
    ELSE None

\* the first button of self.menu_buttons holding the point
MenuButton(x, y) ==
    IF is_point_in_rect(x, y, 30, menu_y, button_width, button_height)
    THEN "play_x"
    ELSE IF is_point_in_rect(x, y, 30,
                             menu_y - button_height - button_spacing,
                             button_width, button_height)
    THEN "play_o"
    ELSE IF \E k \in 2..5 :
              is_point_in_rect(x, y, 30,
                               menu_y - k * (button_height + button_spacing),
                               button_width, button_height)
    THEN "color"
    ELSE None

WinnerButton(x, y) ==
    IF is_point_in_rect(x, y, -40, -30, 30, 10) THEN "restart"
    ELSE IF is_point_in_rect(x, y, 10, -30, 30, 10) THEN "menu"
    ELSE None

\* pointer positions of the click events: the nine cell centres, the
\* buttons of the three screens and the top pixel row of the window
CellCentre(i) == 67 * i - 67
ClickPoints ==
    {<<CellCentre(c), CellCentre(r)>> : r \in Idx, c \in Idx}
    \cup {<<50, 45>>, <<25, 14>>, <<60, 14>>, <<90, 14>>,
          <<-25, -25>>, <<25, -25>>, <<0, 100>>}

(* ------------------------------------------------------------------ init *)
InitState ==
    /\ board = EmptyBoard
    /\ current_player = TRUE
    /\ game_over = FALSE
    /\ winner = None
    /\ in_menu = TRUE
    /\ show_winner_screen = FALSE
    /\ fade_alpha = 0
    /\ player_symbol = None
    /\ computer_symbol = None
    /\ elapsed = MaxIdle
    /\ score = ZeroScore
    /\ move_history = <<>>
    /\ last_click = NoClick
    /\ rounds = 0
    /\ round_done = FALSE
    /\ recovery_attempts = 0
    /\ running = TRUE
    /\ errors_handled = 0

\* what only handle_error and the exit of the loop write
Recovery == <<recovery_attempts, running, errors_handled>>

Limits == <<score_cap, menu_at, undo_at, logging>>

Init ==
    /\ InitState
    /\ score_cap = MaxScore
    /\ menu_at = 0..MaxMenuDepth
    /\ undo_at = 0..MaxHistory
    /\ logging = FALSE

\* the session followed past the end of a round: undo, then play again
InitReplay ==
    /\ InitState
    /\ score_cap = ReplayScore
    /\ menu_at = 0..MaxMenuDepth
    /\ undo_at = 0..MaxHistory
    /\ logging = FALSE

\* the session with the log of board clicks
InitClicks ==
    /\ InitState
    /\ score_cap = MaxScore
    /\ menu_at = 0..MaxMenuDepth
    /\ undo_at = 0..MaxHistory
    /\ logging = TRUE

\* the session with returns to the menu at any point of a round
InitLateMenu ==
    /\ InitState
    /\ score_cap = MaxScore
    /\ menu_at = 0..LateMenuDepth
    /\ undo_at = 0..MaxHistory
    /\ logging = FALSE

\* the session with returns to the menu after three moves of each side
InitSwap ==
    /\ InitState
    /\ score_cap = MaxScore
    /\ menu_at = {SwapAt}
    /\ undo_at = {SwapAt}
    /\ logging = FALSE

(* ----------------------------------------------------------------- score *)
ScoreTotal(s) == s.player + s.computer + s.draws

\* a score keeper that credits the opponent with the player's wins
update_score_swapped(s, w, ps, cs, go) ==
    IF w = ps THEN [s EXCEPT !.computer = @ + 1]
    ELSE IF w = cs THEN [s EXCEPT !.player = @ + 1]
    ELSE IF go THEN [s EXCEPT !.draws = @ + 1]
    ELSE s

\* update_score with self.winner = w, self.game_over = go
update_score(s, w, ps, cs, go) ==
    IF w = ps THEN [s EXCEPT !.player = @ + 1]
    ELSE IF w = cs THEN [s EXCEPT !.computer = @ + 1]
    ELSE IF go THEN [s EXCEPT !.draws = @ + 1]
    ELSE s

(* ------------------------------------------------------------ operations *)
\* the fields of the session; self.last_computer_move is written by
\* computer_move and read only by its caller (line 825), so it is the
\* chosen cell m of the actions below
State == <<board, current_player, game_over, winner, in_menu,
           show_winner_screen, fade_alpha, player_symbol, computer_symbol,
           elapsed, score, move_history>>

Rounds == <<rounds, round_done>>

\* the round in play concludes: counted once
Concluded ==
    /\ rounds' = IF round_done THEN rounds ELSE rounds + 1
    /\ round_done' = TRUE

\* a click the loop took for the board: where, whether the cell was empty,
\* what handle_click did with it and how long ago it was; it is kept while
\* it is less than move_delay old
Click(cell, res, age) ==
    [cell |-> cell, res |-> res, age |-> age,
     empty |-> IF cell \in Cells THEN board[cell] = None ELSE FALSE]

Log(click) == last_click' = IF logging THEN click ELSE NoClick

\* a reset that keeps the scoreboard
reset_game_keeping_score ==
    /\ board' = EmptyBoard
    /\ current_player' = TRUE
    /\ game_over' = FALSE
    /\ winner' = None
    /\ in_menu' = TRUE
    /\ show_winner_screen' = FALSE
    /\ fade_alpha' = 0
    /\ player_symbol' = None
    /\ computer_symbol' = None
    /\ move_history' = <<>>
    /\ UNCHANGED <<score, elapsed, rounds, round_done>>

\* reset_game; the branch of its lines 303-308 needs in_menu false, which
\* line 292 has just made true
reset_game ==
    /\ board' = EmptyBoard
    /\ current_player' = TRUE
    /\ game_over' = FALSE
    /\ winner' = None
    /\ in_menu' = TRUE
    /\ show_winner_screen' = FALSE
    /\ fade_alpha' = 0
    /\ player_symbol' = None
    /\ computer_symbol' = None
    /\ move_history' = <<>>
    /\ score' = ZeroScore
    /\ UNCHANGED elapsed
    /\ rounds' = 0
    /\ round_done' = FALSE

\* an undo that empties the cell of the last entry only
UndoBoardOne(b, h) ==
    [b EXCEPT ![<<h[Len(h)][1], h[Len(h)][2]>>] = None]

\* an undo that forgets one entry only while two cells are cleared
UndoHistoryOfOne(h) == SubSeq(h, 1, Len(h) - 1)

\* the history and the board after the two pops of undo_last_move
UndoHistory(h) == SubSeq(h, 1, Len(h) - 2)
UndoBoard(b, h) ==
    LET m1 == h[Len(h)]
        m2 == h[Len(h) - 1]
    IN [[b EXCEPT ![<<m1[1], m1[2]>>] = None] EXCEPT ![<<m2[1], m2[2]>>] = None]

\* an undo without the test of the history length: it pops what there is
\* and clears the result
undo_without_length_test ==
    LET n == Len(move_history)
        last == {<<move_history[i][1], move_history[i][2]>> :
                   i \in {j \in 1..n : j > n - 2}}
    IN
    /\ board' = [c \in Cells |-> IF c \in last THEN None ELSE board[c]]
    /\ move_history' = SubSeq(move_history, 1, IF n >= 2 THEN n - 2 ELSE 0)
    /\ game_over' = FALSE
    /\ winner' = None
    /\ show_winner_screen' = FALSE
    /\ current_player' = TRUE
    /\ UNCHANGED <<in_menu, fade_alpha, player_symbol, computer_symbol,
                   elapsed, score>>

\* an undo that reopens the round and leaves the winner screen up
undo_keeping_winner_screen ==
    IF Len(move_history) >= 2
    THEN /\ Len(move_history) \in undo_at
         /\ board' = UndoBoard(board, move_history)
         /\ move_history' = UndoHistory(move_history)
         /\ game_over' = FALSE
         /\ winner' = None
         /\ current_player' = TRUE
         /\ UNCHANGED <<in_menu, show_winner_screen, fade_alpha,
                        player_symbol, computer_symbol, elapsed, score>>
    ELSE UNCHANGED State

undo_last_move ==
    IF Len(move_history) >= 2
    THEN /\ Len(move_history) \in undo_at
         /\ board' = UndoBoard(board, move_history)
         /\ move_history' = UndoHistory(move_history)
         /\ game_over' = FALSE
         /\ winner' = None
         /\ show_winner_screen' = FALSE
         /\ current_player' = TRUE
         /\ UNCHANGED <<in_menu, fade_alpha, player_symbol, computer_symbol,
                        elapsed, score>>
    ELSE UNCHANGED State

\* no cooldown at all, and a cooldown shorter than the wait for the reply
NeverTooRapid(dt) == FALSE
TooRapidShort(dt) == dt < ComputerWait

\* the cooldown test of handle_click, on current_time - last_move_time
TooRapid(dt) == dt < move_delay

\* the conclusion test after a placement
RoundEnds(w, b) == w /= None \/ is_board_full(b)

OnBoard(cell) == ~(cell[1] < 0 \/ cell[1] > 2 \/ cell[2] < 0 \/ cell[2] > 2)

\* the round concludes with winner w
Conclude(w) ==
    /\ game_over' = TRUE
    /\ show_winner_screen' = TRUE
    /\ fade_alpha' = 0
    /\ score' = update_score(score, w, player_symbol, computer_symbol, TRUE)
    /\ Concluded

handle_click(x, y) ==
    IF game_over \/ ~current_player
    THEN UNCHANGED <<State, Rounds>> /\ Log(Click(get_cell(x, y), "turn", 0))
    ELSE LET cell == get_cell(x, y) IN
      IF ~OnBoard(cell)
      THEN UNCHANGED <<State, Rounds>> /\ Log(Click(cell, "outside", 0))
      ELSE IF TooRapid(elapsed)
      THEN UNCHANGED <<State, Rounds>> /\ Log(Click(cell, "cooldown", 0))
      ELSE IF board[cell] /= None
      THEN UNCHANGED <<State, Rounds>> /\ Log(Click(cell, "occupied", 0))
      ELSE
        LET b1 == [board EXCEPT ![cell] = player_symbol]
            h1 == Append(move_history, <<cell[1], cell[2], player_symbol>>)
            w1 == check_winner(b1)
        IN
        /\ ScoreTotal(score) < score_cap
        /\ Log(Click(cell, "placed", IF RoundEnds(w1, b1) THEN 0 ELSE ComputerWait))
        /\ UNCHANGED <<in_menu, player_symbol, computer_symbol>>
        /\ IF RoundEnds(w1, b1)
           THEN /\ board' = b1
                /\ move_history' = h1
                /\ winner' = w1
                /\ elapsed' = 0
                /\ Conclude(w1)
                /\ UNCHANGED current_player
           ELSE \* pygame.time.wait(200), then computer_move
                /\ elapsed' = Min(ComputerWait, MaxIdle)
                /\ current_player' = TRUE
                /\ IF ComputerChoices(b1, computer_symbol, player_symbol) = {}
                   THEN /\ board' = b1
                        /\ move_history' = h1
                        /\ winner' = w1
                        /\ UNCHANGED <<game_over, show_winner_screen,
                                       fade_alpha, score, Rounds>>
                   ELSE \E m \in ComputerChoices(b1, computer_symbol,
                                                 player_symbol) :
                        LET b2 == [b1 EXCEPT ![m] = computer_symbol]
                            h2 == Append(h1, <<m[1], m[2], computer_symbol>>)
                            w2 == check_winner(b2)
                        IN
                        /\ board' = b2
                        /\ move_history' = h2
                        /\ winner' = w2
                        /\ IF RoundEnds(w2, b2)
                           THEN Conclude(w2)
                           ELSE UNCHANGED <<game_over, show_winner_screen,
                                            fade_alpha, score, Rounds>>

handle_menu_click(x, y) ==
    LET name == MenuButton(x, y) IN
    IF name = "play_x"
    THEN /\ player_symbol' = "X"
         /\ computer_symbol' = "O"
         /\ current_player' = TRUE
         /\ in_menu' = FALSE
         /\ UNCHANGED <<board, game_over, winner, show_winner_screen,
                        fade_alpha, elapsed, score, move_history>>
    ELSE IF name = "play_o"
    THEN /\ player_symbol' = "O"
         /\ computer_symbol' = "X"
         /\ current_player' = FALSE
         /\ in_menu' = FALSE
         /\ IF ComputerChoices(board, "X", "O") = {}
            THEN UNCHANGED board
            ELSE \E m \in ComputerChoices(board, "X", "O") :
                    board' = [board EXCEPT ![m] = "X"]
         /\ UNCHANGED <<game_over, winner, show_winner_screen, fade_alpha,
                        elapsed, score, move_history>>
    ELSE UNCHANGED State

\* self.in_menu = True of the in-game MENU button and of K_ESCAPE
GoToMenu ==
    /\ Len(move_history) \in menu_at
    /\ in_menu' = TRUE
    /\ UNCHANGED <<board, current_player, game_over, winner,
                   show_winner_screen, fade_alpha, player_symbol,
                   computer_symbol, elapsed, score, move_history, Rounds>>

handle_button_click(x, y) ==
    LET name == GameButton(x, y) IN
    IF name = "restart" THEN reset_game
    ELSE IF name = "menu" THEN GoToMenu
    ELSE undo_last_move /\ UNCHANGED Rounds

\* a winner screen whose buttons do not wait for the fade-in
winner_click_ungated(x, y) ==
    IF ~show_winner_screen
    THEN UNCHANGED <<State, Rounds>>
    ELSE IF WinnerButton(x, y) = "restart" THEN reset_game
    ELSE IF WinnerButton(x, y) = "menu" THEN reset_game
    ELSE UNCHANGED <<State, Rounds>>

handle_winner_screen_click(x, y) ==
    IF ~show_winner_screen \/ fade_alpha < FadeThreshold
    THEN UNCHANGED <<State, Rounds>>
    ELSE IF WinnerButton(x, y) = "restart" THEN reset_game
    ELSE IF WinnerButton(x, y) = "menu" THEN reset_game
    ELSE UNCHANGED <<State, Rounds>>

\* MOUSEBUTTONDOWN, button 1, with the pointer at (x, y)
MouseDown(x, y) ==
    /\ running
    /\ UNCHANGED <<Limits, Recovery>>
    /\ IF in_menu
       THEN /\ handle_menu_click(x, y)
            /\ last_click' = NoClick
            /\ UNCHANGED Rounds
       ELSE IF GameButton(x, y) /= None
       THEN /\ handle_button_click(x, y)
            /\ last_click' = NoClick
       ELSE IF show_winner_screen
       THEN /\ handle_winner_screen_click(x, y)
            /\ last_click' = NoClick
       ELSE IF current_player /\ ~game_over
       THEN handle_click(x, y)
       ELSE UNCHANGED <<State, Rounds>> /\ Log(Click(get_cell(x, y), "turn", 0))

\* K_ESCAPE outside the menu; in the menu it ends the game loop and the
\* state stays as it is
KeyEscape ==
    /\ running
    /\ ~in_menu
    /\ GoToMenu
    /\ last_click' = NoClick
    /\ UNCHANGED <<Limits, Recovery>>

\* K_SPACE
KeySpace ==
    /\ running
    /\ game_over
    /\ reset_game
    /\ last_click' = NoClick
    /\ UNCHANGED <<Limits, Recovery>>

\* Ctrl+Z
KeyCtrlZ ==
    /\ running
    /\ undo_last_move
    /\ last_click' = NoClick
    /\ UNCHANGED <<Rounds, Limits, Recovery>>

\* frames pass that add up to d tenths of a second: elapsed grows and
\* saturates, the logged click ages and, on the winner screen, fade_alpha
\* grows by hover_speed * delta_time * 60 a frame, FadeRate a tenth of a
\* second
Tick(d) ==
    /\ running
    /\ elapsed < MaxIdle \/ (show_winner_screen /\ fade_alpha < FadeMax)
    /\ elapsed' = Min(MaxIdle, elapsed + d)
    /\ last_click' = IF last_click = NoClick THEN NoClick
                     ELSE IF last_click.age + d >= move_delay THEN NoClick
                     ELSE [last_click EXCEPT !.age = @ + d]
    /\ fade_alpha' = IF show_winner_screen
                     THEN Min(FadeMax, fade_alpha + FadeRate * d)
                     ELSE fade_alpha
    /\ UNCHANGED <<board, current_player, game_over, winner, in_menu,
                   show_winner_screen, player_symbol,
                   computer_symbol, score, move_history,
                   Rounds, Limits, Recovery>>

Next ==
    \/ \E p \in ClickPoints : MouseDown(p[1], p[2])
    \/ KeyEscape
    \/ KeySpace
    \/ KeyCtrlZ
    \/ \E d \in TickSteps : Tick(d)

\* handle_error: one more attempt is counted; past max_recovery_attempts it
\* returns False; else it runs __init__ again, which either constructs the
\* session anew, the counter included, and True is returned, or raises
\* while it sets up the display, before any field is written, and False is
\* returned.  ok is the value returned.
handle_error(ok) ==
    /\ errors_handled' = errors_handled + 1
    /\ IF recovery_attempts + 1 > max_recovery_attempts
       THEN /\ ~ok
            /\ recovery_attempts' = recovery_attempts + 1
            /\ UNCHANGED <<State, Rounds, last_click>>
       ELSE \/ /\ ok
               /\ board' = EmptyBoard
               /\ current_player' = TRUE
               /\ game_over' = FALSE
               /\ winner' = None
               /\ in_menu' = TRUE
               /\ show_winner_screen' = FALSE
               /\ fade_alpha' = 0
               /\ player_symbol' = None
               /\ computer_symbol' = None
               /\ elapsed' = MaxIdle
               /\ score' = ZeroScore
               /\ move_history' = <<>>
               /\ recovery_attempts' = 0
               /\ last_click' = NoClick
               /\ rounds' = 0
               /\ round_done' = FALSE
            \/ /\ ~ok
               /\ recovery_attempts' = recovery_attempts + 1
               /\ UNCHANGED <<State, Rounds, last_click>>

\* an exception in the body of the loop: the loop goes on exactly if
\* handle_error returns True
LoopError ==
    /\ running
    /\ errors_handled < MaxErrors
    /\ \E ok \in BOOLEAN :
          /\ handle_error(ok)
          /\ running' = ok
    /\ UNCHANGED Limits

NextErrors ==
    \/ Next
    \/ LoopError

Spec == Init /\ [][Next]_vars
\* the session with exceptions raised in the loop
SpecErrors == Init /\ [][NextErrors]_vars
SpecReplay == InitReplay /\ [][Next]_vars
SpecLateMenu == InitLateMenu /\ [][Next]_vars
SpecClicks == InitClicks /\ [][Next]_vars
SpecSwap == InitSwap /\ [][Next]_vars

(* ------------------------------------------------------- claim vocabulary *)
Lines ==
    {{<<i, 0>>, <<i, 1>>, <<i, 2>>} : i \in Idx}
    \cup {{<<0, i>>, <<1, i>>, <<2, i>>} : i \in Idx}
    \cup {{<<0, 0>>, <<1, 1>>, <<2, 2>>}, {<<0, 2>>, <<1, 1>>, <<2, 0>>}}

HasLine(b, m) == \E l \in Lines : \A c \in l : b[c] = m
AnyLine(b) == \E m \in Marks : HasLine(b, m)
Full(b) == \A c \in Cells : b[c] \in Marks
CountMarks(b, m) == Cardinality({c \in Cells : b[c] = m})
Placed(b, cell, m) == [c \in Cells |-> IF c = cell THEN m ELSE b[c]]

\* the loop hands a click at p to the board: not in the menu, on no game
\* button, no winner screen
ToBoard(p) == ~in_menu /\ GameButton(p[1], p[2]) = None /\ ~show_winner_screen

\* ... and it is a click handle_click is to accept
Acceptable(p) ==
    /\ ToBoard(p)
    /\ current_player
    /\ ~game_over
    /\ get_cell(p[1], p[2]) \in Cells
    /\ board[get_cell(p[1], p[2])] = None
    /\ elapsed >= move_delay

(* ---------------------------------------------------------------- claims *)

\* C1: an accepted click whose mark does not end the round places, in the
\* same step, the player's mark on the clicked cell and one opponent mark on
\* another empty cell, appends the two moves to the history in that order,
\* and ends in game over exactly if the reply ended the round, else on the
\* player's turn.
C1_ReplyInSameStep ==
    [][\A p \in ClickPoints :
        LET cell == get_cell(p[1], p[2])
            b1 == Placed(board, cell, player_symbol)
            n == Len(move_history)
        IN
        (Acceptable(p) /\ ~AnyLine(b1) /\ ~Full(b1) /\ MouseDown(p[1], p[2]))
        =>
        /\ Len(move_history') = n + 2
        /\ SubSeq(move_history', 1, n) = move_history
        /\ move_history'[n + 1] = <<cell[1], cell[2], player_symbol>>
        /\ move_history'[n + 2][3] = computer_symbol
        /\ LET reply == <<move_history'[n + 2][1], move_history'[n + 2][2]>>
           IN /\ reply \in Cells
              /\ b1[reply] = None
              /\ board' = Placed(b1, reply, computer_symbol)
        /\ CountMarks(board', player_symbol)
             = CountMarks(board, player_symbol) + 1
        /\ CountMarks(board', computer_symbol)
             = CountMarks(board, computer_symbol) + 1
        /\ current_player'
        /\ ~in_menu'
        /\ game_over' = (AnyLine(board') \/ Full(board'))
        /\ show_winner_screen' = game_over'
      ]_vars

\* the reply has just been made (the wait of the handler is all that has
\* elapsed) and it ended the round
C1_Witness ==
    /\ ~in_menu
    /\ elapsed = ComputerWait
    /\ game_over
    /\ current_player
    /\ Len(move_history) >= 2
    /\ move_history[Len(move_history)][3] = computer_symbol
    /\ move_history[Len(move_history) - 1][3] = player_symbol
    /\ winner = computer_symbol

\* a line through cell that the mark m completes on b
CompletesLine(b, cell, m) ==
    \E l \in Lines : cell \in l /\ \A c \in l \ {cell} : b[c] = m

\* C2: an accepted placement that completes a line of the player's mark
\* concludes the round in that step: the winner is the player's mark,
\* game_over and the winner screen are set, and the board gains that one
\* mark and the history that one entry.
C2_PlayerWinsAtOnce ==
    [][\A p \in ClickPoints :
        LET cell == get_cell(p[1], p[2]) IN
        (Acceptable(p) /\ CompletesLine(board, cell, player_symbol)
           /\ MouseDown(p[1], p[2]))
        =>
        /\ winner' = player_symbol
        /\ game_over'
        /\ show_winner_screen'
        /\ board' = Placed(board, cell, player_symbol)
        /\ move_history'
             = Append(move_history, <<cell[1], cell[2], player_symbol>>)
      ]_vars

C2_Witness ==
    /\ game_over
    /\ show_winner_screen
    /\ winner = player_symbol
    /\ winner \in Marks
    /\ elapsed = 0
    /\ Len(move_history) >= 1
    /\ move_history[Len(move_history)][3] = player_symbol

\* the step only ages the logged click
Aged ==
    /\ last_click /= NoClick
    /\ last_click' /= NoClick
    /\ last_click'.age > last_click.age
    /\ last_click' = [last_click EXCEPT !.age = last_click'.age]

\* the step is a click the loop took for the board
ClickStep == last_click' /= NoClick /\ ~Aged

\* C3: a board click while it is not the player's turn, or on an occupied
\* cell, or outside the board, or within move_delay of the last accepted
\* click, changes no field of the session: board, move_history, score,
\* winner, the phase flags, the symbols, fade_alpha, and elapsed, which
\* unchanged is last_move_time unchanged.
C3_RejectedClickChangesNothing ==
    [][(/\ ClickStep
        /\ LET cell == last_click'.cell IN
           \/ ~current_player
           \/ cell \notin Cells
           \/ (cell \in Cells /\ board[cell] /= None)
           \/ elapsed < move_delay)
       => UNCHANGED State
      ]_vars

\* a click on an empty cell has just been refused for the cooldown
C3_Witness ==
    /\ last_click /= NoClick
    /\ last_click.res = "cooldown"
    /\ last_click.empty
    /\ board[last_click.cell] = None
    /\ elapsed < move_delay
    /\ current_player
    /\ ~game_over
    /\ ~in_menu

\* two clicks on distinct empty cells during the player's turn less than
\* move_delay apart: the logged click and the click of this step
ClickPair ==
    /\ last_click /= NoClick
    /\ ClickStep
    /\ last_click.empty
    /\ last_click'.empty
    /\ last_click.cell /= last_click'.cell
    /\ last_click.res /= "turn"
    /\ current_player

\* C4 as stated: of two clicks on distinct empty cells during the player's
\* turn less than move_delay apart, exactly one is accepted, the first.
C4_ExactlyOneAccepted ==
    [][ClickPair
       => (last_click.res = "placed" /\ last_click'.res /= "placed")
      ]_vars

\* C4 amended: two such clicks are never both accepted; when the first is
\* accepted the second is ignored and changes nothing; when the first is
\* itself ignored, the second is accepted exactly if move_delay has passed
\* since the last accepted click.
C4_NeverBothAccepted ==
    [][ClickPair
       => /\ ~(last_click.res = "placed" /\ last_click'.res = "placed")
          /\ last_click.res = "placed"
               => (last_click'.res = "cooldown" /\ UNCHANGED State)
          /\ last_click.res /= "placed"
               => /\ last_click.res = "cooldown"
                  /\ last_click'.res
                       = IF elapsed < move_delay THEN "cooldown" ELSE "placed"
      ]_vars

\* the second click of such a pair has just been ignored after an accepted
\* first: it is the logged click, the cell of the accepted one is the entry
\* before the reply in move_history
C4_Witness ==
    /\ last_click /= NoClick
    /\ last_click.res = "cooldown"
    /\ last_click.empty
    /\ last_click.age = 0
    /\ ~in_menu /\ current_player /\ ~game_over
    /\ elapsed = ComputerWait
    /\ Len(move_history) >= 2
    /\ move_history[Len(move_history) - 1][3] = player_symbol
    /\ last_click.cell /= <<move_history[Len(move_history) - 1][1],
                            move_history[Len(move_history) - 1][2]>>

Counters == {"player", "computer", "draws"}
Bump(s, k) == [s EXCEPT ![k] = @ + 1]

\* C5: a click on Play as O in the menu runs the heuristic once and leaves
\* the session in the player's turn: one more opponent mark on the board,
\* in_menu false and current_player true.
C5_PlayAsOGivesTurn ==
    [][(in_menu /\ MenuButton(50, 45) = "play_o" /\ MouseDown(50, 45))
       => /\ ~in_menu'
          /\ player_symbol' = "O"
          /\ CountMarks(board', "X") = CountMarks(board, "X") + 1
          /\ current_player'
      ]_vars

\* the board a round starts from: empty, but for the opening mark of the
\* opponent when the player plays O
OpeningBoard(b, ps, cs) ==
    IF ps = "O"
    THEN CountMarks(b, cs) = 1 /\ CountMarks(b, ps) = 0
    ELSE b = EmptyBoard

\* C6: whenever a symbol choice in the menu starts play, the board is empty
\* apart from the opening mark of the opponent when the player plays O,
\* move_history is empty and no result is pending.
C6_RoundStartsEmpty ==
    [][(in_menu /\ ~in_menu')
       => /\ OpeningBoard(board', player_symbol', computer_symbol')
          /\ move_history' = <<>>
          /\ ~game_over'
          /\ ~show_winner_screen'
          /\ winner' = None
      ]_vars

\* C7: the counters sum to the number of rounds concluded since the score
\* was last reset.
C7_ScoreOncePerRound == ScoreTotal(score) = rounds

\* the pointer is on the button of the winner screen, which is shown and has
\* faded in, and no in-game button is under it
OnWinnerButton(p, name) ==
    /\ ~in_menu
    /\ show_winner_screen
    /\ fade_alpha >= FadeThreshold
    /\ GameButton(p[1], p[2]) = None
    /\ WinnerButton(p[1], p[2]) = name

\* C8: no counter decreases but by the MENU button of the winner screen; the
\* restart actions (RESTART of the winner screen, RESTART in the game, Space
\* after game over) leave the three counters as they are.
C8_ScoreKeptOnRestart ==
    [][/\ (\E k \in Counters : score'[k] < score[k])
            => \E p \in ClickPoints :
                  OnWinnerButton(p, "menu") /\ MouseDown(p[1], p[2])
       /\ (game_over /\ KeySpace) => score' = score
       /\ (\E p \in ClickPoints :
              /\ ~in_menu
              /\ GameButton(p[1], p[2]) = "restart"
              /\ MouseDown(p[1], p[2])) => score' = score
       /\ (\E p \in ClickPoints :
              OnWinnerButton(p, "restart") /\ MouseDown(p[1], p[2]))
            => score' = score
      ]_vars

\* the step concludes a round
Concludes == ~game_over /\ game_over'

\* at a conclusion exactly one counter goes up by one, the one matching the
\* outcome, and the score changes in no other step but a reset
ScoreFollowsOutcome ==
    /\ Concludes =>
          /\ \E k \in Counters : score' = Bump(score, k)
          /\ winner' /= None => HasLine(board', winner')
          /\ winner' = None => (Full(board') /\ ~AnyLine(board'))
          /\ winner' = player_symbol => score' = Bump(score, "player")
          /\ winner' = computer_symbol => score' = Bump(score, "computer")
          /\ winner' = None => score' = Bump(score, "draws")
    /\ ~Concludes => (score' = score \/ (score' = ZeroScore /\ in_menu'))

C10_RestartKeepsPlaying ==
    [][(\E p \in ClickPoints :
           OnWinnerButton(p, "restart") /\ MouseDown(p[1], p[2]))
       => /\ ~in_menu'
          /\ player_symbol' = player_symbol
          /\ computer_symbol' = computer_symbol
          /\ OpeningBoard(board', player_symbol', computer_symbol')
          /\ move_history' = <<>>
          /\ ~game_over'
          /\ ~show_winner_screen'
      ]_vars

\* the state a full reset leaves
FullyReset ==
    /\ in_menu
    /\ board = EmptyBoard
    /\ move_history = <<>>
    /\ ~game_over
    /\ ~show_winner_screen
    /\ winner = None
    /\ player_symbol = None
    /\ computer_symbol = None
    /\ score = ZeroScore

\* C11: the MENU button of the winner screen performs a full reset: the
\* session is in the menu, board and move_history are empty, game_over,
\* show_winner_screen and winner are cleared, the symbols are cleared and
\* the three counters are 0.
C11_WinnerMenuResetsAll ==
    [][(\E p \in ClickPoints :
           OnWinnerButton(p, "menu") /\ MouseDown(p[1], p[2]))
       => FullyReset'
      ]_vars

\* the winner screen has faded in over a recorded result, so that its MENU
\* button is live and the reset has a board, a history, symbols and a score
\* to clear
C11_Witness ==
    /\ \E p \in ClickPoints : OnWinnerButton(p, "menu")
    /\ game_over
    /\ score /= ZeroScore
    /\ move_history /= <<>>
    /\ player_symbol \in Marks

\* the step is a go-to-menu action: ESC outside the menu, or the in-game
\* MENU button
GoesToMenu ==
    /\ ~in_menu
    /\ \/ KeyEscape
       \/ \E p \in ClickPoints :
             GameButton(p[1], p[2]) = "menu" /\ MouseDown(p[1], p[2])

\* C12: a go-to-menu action in a non-menu state leads to the menu and
\* discards the round: afterwards the board and move_history are empty and
\* no result is pending.
C12_GoToMenuDiscardsRound ==
    [][GoesToMenu
       => /\ in_menu'
          /\ board' = EmptyBoard
          /\ move_history' = <<>>
          /\ ~game_over'
          /\ ~show_winner_screen'
          /\ winner' = None
      ]_vars

\* the step is an undo action: Ctrl+Z, or the UNDO button in the game
UndoStep ==
    \/ KeyCtrlZ
    \/ \E p \in ClickPoints :
          ~in_menu /\ GameButton(p[1], p[2]) = "undo" /\ MouseDown(p[1], p[2])

\* C13: with at least two moves in move_history, undo removes exactly the
\* last two entries and empties exactly their two cells, leaves every other
\* cell, the score and the symbols as they are and the player to move; and
\* undo after an accepted click and the reply to it gives back the board and
\* the history of before the click.
C13_UndoRoundTrip ==
    [][/\ (Len(move_history) >= 2 /\ UndoStep) =>
            LET n == Len(move_history)
                c1 == <<move_history[n][1], move_history[n][2]>>
                c2 == <<move_history[n - 1][1], move_history[n - 1][2]>>
            IN /\ move_history' = SubSeq(move_history, 1, n - 2)
               /\ board'[c1] = None
               /\ board'[c2] = None
               /\ \A c \in Cells \ {c1, c2} : board'[c] = board[c]
               /\ CountMarks(board', None) = CountMarks(board, None) + 2
               /\ score' = score
               /\ player_symbol' = player_symbol
               /\ computer_symbol' = computer_symbol
               /\ current_player'
       /\ \A p \in ClickPoints :
            (/\ Acceptable(p)
             /\ ~RoundEnds(check_winner(Placed(board, get_cell(p[1], p[2]),
                                               player_symbol)),
                           Placed(board, get_cell(p[1], p[2]), player_symbol))
             /\ MouseDown(p[1], p[2]))
            => /\ Len(move_history') = Len(move_history) + 2
               /\ UndoBoard(board', move_history') = board
               /\ UndoHistory(move_history') = move_history
      ]_vars

\* a concluded round has been undone: its result stays in the score while
\* the round is in play again, the player to move
C13_Witness ==
    /\ round_done
    /\ ~game_over
    /\ ~show_winner_screen
    /\ winner = None
    /\ current_player
    /\ ~in_menu
    /\ score /= ZeroScore
    /\ Len(move_history) >= 2

\* C14: undo with fewer than two moves in move_history changes nothing:
\* board, history, score, winner and the phase flags stay, by Ctrl+Z and by
\* the UNDO button, in whatever state.
C14_ShortUndoIsNoOp ==
    [][(Len(move_history) < 2 /\ UndoStep) => UNCHANGED State]_vars

\* a round ended with one move in move_history: an undo here leaves the
\* result and the winner screen as they are
C14_Witness ==
    /\ Len(move_history) = 1
    /\ game_over
    /\ show_winner_screen
    /\ winner /= None
    /\ ~in_menu

\* C15: once a round has concluded undo is rejected: with game_over true an
\* undo action leaves board, move_history, winner, game_over and
\* show_winner_screen unchanged, whatever the history length.
C15_NoUndoAfterConclusion ==
    [][(game_over /\ UndoStep)
       => UNCHANGED <<board, move_history, winner, game_over,
                      show_winner_screen>>
      ]_vars

\* C16: the in-game RESTART button pressed on the player's turn of an
\* unconcluded round is ignored: board, history, score, symbols and phase
\* stay.
C16_RestartInPlayIgnored ==
    [][(/\ ~in_menu
        /\ current_player
        /\ ~game_over
        /\ \E p \in ClickPoints :
              GameButton(p[1], p[2]) = "restart" /\ MouseDown(p[1], p[2]))
       => UNCHANGED <<board, move_history, score, player_symbol,
                      computer_symbol, in_menu, game_over, current_player,
                      show_winner_screen>>
      ]_vars

\* C17: board and move_history agree: the non-empty cells are exactly the
\* cells recorded in move_history, each with the mark recorded for it, and
\* there are as many marks as entries.
C17_BoardMatchesHistory ==
    /\ \A c \in Cells :
          board[c] /= None
          <=> \E i \in 1..Len(move_history) :
                 move_history[i] = <<c[1], c[2], board[c]>>
    /\ CountMarks(board, "X") + CountMarks(board, "O") = Len(move_history)

\* C18: one phase at a time: in_menu never together with game_over or
\* show_winner_screen, and outside the menu an unconcluded round is never
\* left in the opponent's turn.
C18_OnePhase ==
    /\ ~(in_menu /\ (game_over \/ show_winner_screen))
    /\ (~in_menu /\ ~game_over) => current_player

\* C19: no reachable board holds a complete line of X together with a
\* complete line of O.
C19_NoDoubleWin == ~(HasLine(board, "X") /\ HasLine(board, "O"))

\* C20: the stored result is the evaluation of the board: winner equals
\* check_winner of the board, and game_over holds exactly when the board
\* has a complete line or is full.
C20_ResultIsEvaluation ==
    /\ winner = check_winner(board)
    /\ game_over <=> (AnyLine(board) \/ Full(board))

(* ------------------------------------------- the heuristic within a step *)
\* the step runs computer_move: for the reply to an accepted click, which
\* alone adds two entries to move_history, or for the opening of Play as O
ReplyStep == Len(move_history') = Len(move_history) + 2
OpeningStep == in_menu /\ ~in_menu' /\ player_symbol' = "O"
MoveStep == ReplyStep \/ OpeningStep

\* the board computer_move is called on in such a step, and the two symbols
MoveBoard ==
    IF OpeningStep THEN board
    ELSE LET e == move_history'[Len(move_history) + 1]
         IN Placed(board, <<e[1], e[2]>>, player_symbol)
MoveOpp == IF OpeningStep THEN "X" ELSE computer_symbol
MoveOwn == IF OpeningStep THEN "O" ELSE player_symbol

\* the empty cells of b on which the mark m completes a line, and the first
\* cell of a set in row-major order
WinningCells(b, m) == {c \in Cells : b[c] = None /\ CompletesLine(b, c, m)}
FirstCell(S) == CHOOSE c \in S : \A d \in S : 3 * c[1] + c[2] <= 3 * d[1] + d[2]

\* C21: whenever computer_move runs on a board with an empty cell on which
\* the opponent's mark completes a line, it places the opponent's mark on
\* the first such cell in row-major order, whatever the player threatens.
C21_TakesTheWin ==
    [][(MoveStep /\ WinningCells(MoveBoard, MoveOpp) /= {})
       => board' = Placed(MoveBoard,
                          FirstCell(WinningCells(MoveBoard, MoveOpp)), MoveOpp)
      ]_vars

\* C22: whenever computer_move runs on a board where the opponent's mark
\* completes no line and there is an empty cell on which the player's mark
\* would complete one, it places the opponent's mark on the first such cell
\* in row-major order, before the centre, the corners and the edges.
C22_BlocksBeforeTheRest ==
    [][(/\ MoveStep
        /\ WinningCells(MoveBoard, MoveOpp) = {}
        /\ WinningCells(MoveBoard, MoveOwn) /= {})
       => board' = Placed(MoveBoard,
                          FirstCell(WinningCells(MoveBoard, MoveOwn)), MoveOpp)
      ]_vars

\* C23: computer_move moves whenever it can and only onto an empty cell: on
\* a board that is not full it returns True and changes exactly one cell,
\* from empty to the opponent's mark; on a full board it returns False and
\* leaves the board as it is.  An accepted click that does not conclude the
\* round is therefore always answered: no step adds a single entry to
\* move_history without concluding.
C23_MovesOntoEmptyCell ==
    [][/\ (MoveStep /\ ~Full(MoveBoard)) =>
             /\ ComputerChoices(MoveBoard, MoveOpp, MoveOwn) /= {}
             /\ \E c \in Cells :
                   /\ MoveBoard[c] = None
                   /\ board' = Placed(MoveBoard, c, MoveOpp)
             /\ CountMarks(board', None) = CountMarks(MoveBoard, None) - 1
       /\ (MoveStep /\ Full(MoveBoard)) =>
             /\ ComputerChoices(MoveBoard, MoveOpp, MoveOwn) = {}
             /\ board' = MoveBoard
       /\ (Len(move_history') = Len(move_history) + 1) => game_over'
      ]_vars

\* the heuristic has been run for Play as O on a board with at most one
\* empty cell, which is full now
C23_Witness ==
    /\ ~in_menu
    /\ player_symbol = "O"
    /\ ~current_player
    /\ Full(board)

\* the round in play was played from an empty board by alternating moves,
\* the player first: the marks on the board are those of move_history,
\* which alternates from the player's mark; or the opponent first: the same
\* with the opening mark of the opponent on the board besides
Alternates(h, ps, cs) ==
    \A i \in 1..Len(h) : h[i][3] = IF i % 2 = 1 THEN ps ELSE cs
HistoryMarks(b, h) ==
    \A i \in 1..Len(h) : b[<<h[i][1], h[i][2]>>] = h[i][3]
RoundFromEmpty ==
    /\ player_symbol \in Marks
    /\ Alternates(move_history, player_symbol, computer_symbol)
    /\ HistoryMarks(board, move_history)
    /\ LET opening == IF player_symbol = "O" THEN 1 ELSE 0
       IN /\ CountMarks(board, player_symbol) = (Len(move_history) + 1) \div 2
          /\ CountMarks(board, computer_symbol)
               = Len(move_history) \div 2 + opening

\* C24: a round played from an empty board by alternating legal moves never
\* ends with a win of the player's mark, whatever the player's moves and
\* the random choices of the heuristic.
C24_PlayerNeverWins ==
    (RoundFromEmpty /\ game_over) => winner /= player_symbol

\* the symbols are both unset, or the two different marks
SymbolsExclusive ==
    \/ player_symbol = None /\ computer_symbol = None
    \/ /\ player_symbol \in Marks
       /\ computer_symbol \in Marks
       /\ player_symbol /= computer_symbol

\* C25: the symbols are both unset or the two different marks, and they do
\* not change while a round is in progress: once chosen they stay until the
\* round has concluded or a reset clears them.
C25_SymbolsFixedInRound ==
    [][/\ SymbolsExclusive
       /\ SymbolsExclusive'
       /\ (player_symbol \in Marks /\ ~game_over /\ player_symbol' /= None)
             => UNCHANGED <<player_symbol, computer_symbol>>
      ]_vars

\* the winner screen is active and the loop hands a click at p to it
ToWinnerScreen(p) ==
    /\ ~in_menu
    /\ show_winner_screen
    /\ GameButton(p[1], p[2]) = None

\* a click at p leaves the winner screen and the concluded round, and by
\* MENU it ends in the menu
LeavesWinnerScreen(p) ==
    /\ MouseDown(p[1], p[2])
    /\ ~show_winner_screen'
    /\ ~game_over'
    /\ WinnerButton(p[1], p[2]) = "menu" => in_menu'

\* C26 as stated: while the winner screen is active a click on its RESTART
\* or MENU button is accepted, with no further condition: in every such
\* state the click leaves the winner screen.
C26_WinnerButtonsLive ==
    \A p \in ClickPoints :
        (ToWinnerScreen(p) /\ WinnerButton(p[1], p[2]) \in {"restart", "menu"})
        => ENABLED LeavesWinnerScreen(p)

\* C26 amended: such a click is accepted once the winner screen has faded
\* in to FadeThreshold, and until then it changes nothing.
C26_WinnerButtonsLiveOnceFadedIn ==
    \A p \in ClickPoints :
        (ToWinnerScreen(p) /\ WinnerButton(p[1], p[2]) \in {"restart", "menu"})
        => IF fade_alpha >= FadeThreshold
           THEN ENABLED LeavesWinnerScreen(p)
           ELSE ~ENABLED (MouseDown(p[1], p[2]) /\ ~UNCHANGED State)

\* the winner screen is up and still fading in: its buttons are not live
C26_Witness ==
    /\ ~in_menu
    /\ show_winner_screen
    /\ game_over
    /\ 0 < fade_alpha
    /\ fade_alpha < FadeThreshold

\* pointer coordinates around the edges of the board and of its cells, in
\* hundredths: outside, on and just inside the edges -1 and 1, on both sides
\* of the cell borders at -1/3 and 1/3, and the cell centres
Coords == {-150, -101, -100, -99, -67, -34, -33, 0, 33, 34, 67, 99, 100, 101,
           150}
InRange(v) == -100 <= v /\ v <= 100
\* floor((coord + 1) * 1.5)
CellIndex(v) == ((v + 100) * 3) \div 200
Sentinel == <<-1, -1>>

\* what get_cell is to return for the point (x, y), the coordinates that
\* satisfy In(_) being those of the board
CellOfPoint(x, y, In(_)) ==
    /\ (In(x) /\ In(y)) =>
          /\ get_cell(x, y) = <<CellIndex(y), CellIndex(x)>>
          /\ get_cell(x, y) \in Cells
    /\ ~(In(x) /\ In(y)) => get_cell(x, y) = Sentinel
    /\ get_cell(x, y) \in Cells \cup {Sentinel}

\* C27 as stated: for a pointer position the loop hands to the board,
\* get_cell maps a point with both coordinates in [-1, 1], the edges -1 and
\* 1 included, to the cell floor((coord + 1) * 1.5) of each axis, which is
\* in {0, 1, 2}; every other point to the sentinel (-1, -1); and it returns
\* nothing else.
C27_CellOfPoint ==
    \A x \in Coords, y \in Coords :
        ToBoard(<<x, y>>) => CellOfPoint(x, y, InRange)

\* C27 amended: the same for coordinates in [-1, 1), the edge 1 excluded; a
\* point with a coordinate of 1, where floor((coord + 1) * 1.5) is 3, goes
\* to the sentinel like the points outside.
InCells(v) == -100 <= v /\ v < 100
C27_CellOfPointInside ==
    \A x \in Coords, y \in Coords :
        ToBoard(<<x, y>>) => CellOfPoint(x, y, InCells)

\* the player is to move and a click on the top pixel row of the window,
\* y_pos = 1, goes to handle_click, which finds it outside the board while
\* the cell under the pointer is empty
C27_Witness ==
    /\ \E p \in ClickPoints :
          /\ p[2] = 100
          /\ InRange(p[1])
          /\ ToBoard(p)
          /\ get_cell(p[1], p[2]) = Sentinel
          /\ board[<<2, CellIndex(p[1])>>] = None
    /\ current_player
    /\ ~game_over
    /\ elapsed >= move_delay
    /\ move_history /= <<>>

\* the eight lines in the order of the scan: rows, columns, the diagonal
\* from (0,0), the diagonal from (0,2)
ScanOrder ==
    << {<<0, 0>>, <<0, 1>>, <<0, 2>>}, {<<1, 0>>, <<1, 1>>, <<1, 2>>},
       {<<2, 0>>, <<2, 1>>, <<2, 2>>}, {<<0, 0>>, <<1, 0>>, <<2, 0>>},
       {<<0, 1>>, <<1, 1>>, <<2, 1>>}, {<<0, 2>>, <<1, 2>>, <<2, 2>>},
       {<<0, 0>>, <<1, 1>>, <<2, 2>>}, {<<0, 2>>, <<1, 1>>, <<2, 0>>} >>
Complete(b, l) == \E m \in Marks : \A c \in l : b[c] = m
\* the mark of the first complete line of b in that order, None without one
FirstLineMark(b) ==
    IF \E i \in 1..Len(ScanOrder) : Complete(b, ScanOrder[i])
    THEN LET i == CHOOSE i \in 1..Len(ScanOrder) :
                     /\ Complete(b, ScanOrder[i])
                     /\ \A j \in 1..(i - 1) : ~Complete(b, ScanOrder[j])
         IN b[CHOOSE c \in ScanOrder[i] : TRUE]
    ELSE None

\* check_winner on b is the mark of the first complete line; it is a mark
\* exactly when there is a line, and the mark m exactly when m has one, the
\* other mark having none
Evaluates(b) ==
    /\ check_winner(b) = FirstLineMark(b)
    /\ check_winner(b) = None <=> ~AnyLine(b)
    /\ \A m \in Marks :
          (/\ HasLine(b, m)
           /\ \A o \in Marks \ {m} : ~HasLine(b, o)) => check_winner(b) = m
    /\ \A m \in Marks : check_winner(b) = m => HasLine(b, m)

Centre == <<1, 1>>
EmptyOf(b, S) == {c \in S : b[c] = None}

\* C29: when computer_move runs on a board where neither mark completes a
\* line on any empty cell, it takes the centre if the centre is empty,
\* otherwise an empty corner if there is one, and an empty edge only when
\* the centre and the four corners are taken; and the reply to a first move
\* of the player that is not the centre is the centre.
C29_CentreCornerEdge ==
    [][/\ (/\ MoveStep
           /\ WinningCells(MoveBoard, MoveOpp) = {}
           /\ WinningCells(MoveBoard, MoveOwn) = {})
          => IF MoveBoard[Centre] = None
             THEN board' = Placed(MoveBoard, Centre, MoveOpp)
             ELSE IF EmptyOf(MoveBoard, Corners) /= {}
             THEN \E c \in EmptyOf(MoveBoard, Corners) :
                     board' = Placed(MoveBoard, c, MoveOpp)
             ELSE IF EmptyOf(MoveBoard, Edges) /= {}
             THEN \E c \in EmptyOf(MoveBoard, Edges) :
                     board' = Placed(MoveBoard, c, MoveOpp)
             ELSE board' = MoveBoard
       /\ (ReplyStep /\ board = EmptyBoard /\ board'[Centre] /= player_symbol)
          => board'[Centre] = computer_symbol
      ]_vars

\* C30: find_winning_move returns with the board as it was at the call,
\* for either mark and whether or not it finds a cell: each cell it sets
\* for a try it empties again; so the cell it returns is that of the search
\* on an unchanging board, which is how the steps of the heuristic use it.
C30_SearchLeavesBoard ==
    [][MoveStep =>
          \A m \in Marks :
             /\ TryWinning(MoveBoard, m, 0).board = MoveBoard
             /\ TryWinning(MoveBoard, m, 0).move = find_winning_move(MoveBoard, m)
      ]_vars

\* the last reply of the opponent is a cell the search for a win returned,
\* and the board holds the marks of before the search and that reply
C30_Witness ==
    /\ ~in_menu
    /\ computer_symbol \in Marks
    /\ Len(move_history) >= 2
    /\ LET e == move_history[Len(move_history)]
           before == [board EXCEPT ![<<e[1], e[2]>>] = None]
       IN /\ e[3] = computer_symbol
          /\ board[<<e[1], e[2]>>] = computer_symbol
          /\ TryWinning(before, computer_symbol, 0)
               = [board |-> before, move |-> <<e[1], e[2]>>]

\* C31: the numbers of X and of O on the board differ by at most one, and
\* when the player is to move in an unconcluded round the player has placed
\* no more marks than the opponent.
C31_TurnsAlternate ==
    /\ CountMarks(board, "X") - CountMarks(board, "O") \in {-1, 0, 1}
    /\ (~in_menu /\ ~game_over /\ current_player /\ player_symbol \in Marks)
          => CountMarks(board, player_symbol)
               <= CountMarks(board, computer_symbol)

\* C32: while game_over holds no step adds a mark to the board, and the
\* board changes only by an undo, which empties the cells of the last two
\* moves, or by a reset, which empties it.
C32_BoardFrozenWhenOver ==
    [][game_over =>
          /\ \A c \in Cells : board[c] = None => board'[c] = None
          /\ board' /= board =>
                \/ /\ Len(move_history) >= 2
                   /\ board' = UndoBoard(board, move_history)
                   /\ move_history' = UndoHistory(move_history)
                \/ /\ board' = EmptyBoard
                   /\ move_history' = <<>>
                   /\ ~game_over'
      ]_vars

\* C33: a started round can be played on: outside the menu, in a round that
\* is not concluded, a board click is accepted once the cooldown is over;
\* it is the player's turn, the winner screen is not in the way and a cell
\* is empty.
C33_RoundCanBePlayed ==
    (~in_menu /\ ~game_over)
       => /\ current_player
          /\ ~show_winner_screen
          /\ \E c \in Cells : board[c] = None

\* C34: the winner screen is shown exactly when the round is over, and a
\* round that is over has a board with a complete line or a full board.
C34_WinnerScreenIffOver ==
    /\ game_over <=> show_winner_screen
    /\ game_over => (AnyLine(board) \/ Full(board))

\* the winner screen has faded in over a board with a line and empty cells
C34_Witness ==
    /\ game_over
    /\ show_winner_screen
    /\ fade_alpha = FadeMax
    /\ AnyLine(board)
    /\ ~Full(board)

\* C36: error recovery is bounded: once more than max_recovery_attempts
\* errors have been handled recovery has been refused and the loop has
\* ended; no run of errors is followed by that many re-initialisations with
\* the loop still going.
C36_RecoveryBounded ==
    errors_handled > max_recovery_attempts => ~running

\* C35: the move history never refers to a stale cell: every entry names a
\* cell that holds exactly the mark of the entry, no cell is named by two
\* entries, and the history has at most as many entries as the board has
\* cells.
C35_HistoryNamesLiveCells ==
    /\ HistoryMarks(board, move_history)
    /\ \A i, j \in 1..Len(move_history) :
          i /= j => <<move_history[i][1], move_history[i][2]>>
                       /= <<move_history[j][1], move_history[j][2]>>
    /\ Len(move_history) <= MaxHistory

\* eight moves are recorded, the round is open and one cell is empty
C35_Witness ==
    /\ Len(move_history) = MaxHistory - 1
    /\ ~game_over
    /\ Cardinality({c \in Cells : board[c] = None}) = 1
    /\ HistoryMarks(board, move_history)

====
